---- MODULE Spec2Model ----
(***************************************************************************)
(* DocumentClientRequestTransformer of typedorm: the translation of an     *)
(* entity's metadata and a caller's input into DynamoDB DocumentClient     *)
(* get / put / update / delete / query requests.                           *)
(*                                                                         *)
(* The transformer is stateless: every operation is a function of the      *)
(* registered metadata and of its arguments.  A behaviour of the model     *)
(* draws one call (entity class and arguments) in Init and the actions     *)
(* apply the operations to it, recording what each one returns or throws.  *)
(***************************************************************************)
EXTENDS Naturals, Sequences, FiniteSets, TLC

VARIABLES
  entityClass,   \* metadata of the entity class the call is about
  args,          \* the arguments of the call, args.api names the operation family
  getItem,       \* what toDynamoGetItem returned or threw
  deleteItem,    \* what toDynamoDeleteItem returned or threw
  putItem,       \* what toDynamoPutItem returned or threw
  updateItem,    \* what toDynamoUpdateItem returned or threw
  queryItem      \* what toDynamoQueryItem returned or threw

vars == <<entityClass, args, getItem, deleteItem, putItem, updateItem, queryItem>>

(***************************************************************************)
(* Bounds of the model.                                                    *)
(***************************************************************************)
\* entity classes carry 0 .. MaxUnique attributes marked unique
MaxUnique == 2
\* query limits range over 1 .. MaxLimit
MaxLimit == 1

(***************************************************************************)
(* JavaScript values.  A value is a tagged record: k is the runtime type   *)
(* and s the text String(value) gives.  undefined is a value of its own:   *)
(* reading a missing property gives it.                                    *)
(***************************************************************************)
Undef == [k |-> "undefined", s |-> "undefined"]
Str(x) == [k |-> "string", s |-> x]
Num(x) == [k |-> "number", s |-> x]

\* the values the callers' objects hold
Values == {Undef, Str(""), Str("a"), Num("0"), Num("1")}

\* JavaScript truthiness: what `if (v)` and `!v` test
Truthy(v) == ~(v = Undef \/ v = Str("") \/ v = Num("0"))

\* the ?? operator: the right side only when the left is null or undefined
Coalesce(a, b) == IF a = Undef THEN b ELSE a

\* obj[name]: undefined when the object has no such property
Get(obj, name) == IF name \in DOMAIN obj THEN obj[name] ELSE Undef

EmptyObject == [a \in {} |-> Undef]

\* an optional field of a request or of an argument: <<>> or <<x>>
None == <<>>
Some(x) == <<x>>

\* {...a, ...b}: b's properties override a's
Spread(a, b) == [n \in DOMAIN a \cup DOMAIN b |-> IF n \in DOMAIN b THEN b[n] ELSE a[n]]

(***************************************************************************)
(* Outcomes of an operation.                                               *)
(***************************************************************************)
Pending == [kind |-> "pending"]
Ok(v) == [kind |-> "ok", value |-> v]
\* a thrown Error: the kind of failure and what the message names
Throw(e, m) == [kind |-> "error", error |-> e, message |-> m]
\* a returned request, and a returned array of requests
Return(v) == [kind |-> "return", array |-> FALSE, value |-> v]
ReturnList(l) == [kind |-> "return", array |-> TRUE, value |-> l]

isEmptyObject(obj) == DOMAIN obj = {}

(***************************************************************************)
(* Key templates.  A template is a sequence of tokens, literal text or a   *)
(* {{name}} placeholder.                                                   *)
(***************************************************************************)
Lit(x) == [t |-> "lit", v |-> x]
Ref(x) == [t |-> "ref", v |-> x]

\* the attribute names a template's placeholders reference
RECURSIVE TemplateRefs(_)
TemplateRefs(key) ==
  IF key = <<>> THEN {}
  ELSE (IF Head(key).t = "ref" THEN {Head(key).v} ELSE {}) \cup TemplateRefs(Tail(key))

\* parseKey: every placeholder replaced by the text of the attribute's value;
\* throws on the first placeholder whose attribute is missing or empty
RECURSIVE parseKey(_, _)
parseKey(key, dict) ==
  IF key = <<>> THEN Ok("")
  ELSE LET tok == Head(key)
           variable == Get(dict, tok.v)
           rest == parseKey(Tail(key), dict)
       IN  IF tok.t = "ref" /\ (variable = Undef \/ variable = Str(""))
             THEN Throw("UnresolvedKeyAttributeError", tok.v)
           ELSE IF rest.kind = "error" THEN rest
           ELSE Ok((IF tok.t = "ref" THEN variable.s ELSE tok.v) \o rest.value)

(***************************************************************************)
(* Tables.                                                                 *)
(***************************************************************************)
\* the descriptors of the secondary indexes a table may declare
GSI1 == [type |-> "GLOBAL_SECONDARY_INDEX", partitionKey |-> "GSI1PK", sortKey |-> Some("GSI1SK")]
GSI2 == [type |-> "GLOBAL_SECONDARY_INDEX", partitionKey |-> "GSI2PK", sortKey |-> None]
LSI1 == [type |-> "LOCAL_SECONDARY_INDEX", partitionKey |-> "PK", sortKey |-> Some("LSI1SK")]

Table(sk, ix) == [name |-> "test-table", partitionKey |-> "PK", sortKey |-> sk, indexes |-> ix]

\* the table of the User entity: a composite key and the three indexes
table == Table(Some("SK"), [n \in {"GSI1", "GSI2", "LSI1"} |->
                              CASE n = "GSI1" -> GSI1 [] n = "GSI2" -> GSI2 [] OTHER -> LSI1])
\* a table with a partition key only
simpleTable == Table(None, [n \in {"GSI1", "GSI2"} |-> IF n = "GSI1" THEN GSI1 ELSE GSI2])

\* Table.usesCompositeKey
usesCompositeKey(t) == t.sortKey # None

\* Table.getIndexByKey
getIndexByKey(t, key) == IF key \in DOMAIN t.indexes THEN Some(t.indexes[key]) ELSE None

(***************************************************************************)
(* BaseTransformer.getParsedPrimaryKey: the literal key of an item.        *)
(***************************************************************************)
getParsedPrimaryKey(t, primaryKey, attributes) ==
  IF isEmptyObject(primaryKey) THEN Ok(EmptyObject)
  ELSE LET pk == parseKey(primaryKey[t.partitionKey], attributes)
       IN  IF pk.kind = "error" THEN pk
           ELSE IF ~usesCompositeKey(t) THEN Ok(t.partitionKey :> pk.value)
           ELSE LET sk == parseKey(primaryKey[t.sortKey[1]], attributes)
                IN  IF sk.kind = "error" THEN sk
                    ELSE Ok((t.partitionKey :> pk.value) @@ (t.sortKey[1] :> sk.value))

\* BaseTransformer.getTableNameForEntity
getTableNameForEntity(ec) == ec.table.name

(***************************************************************************)
(* Entity classes: the metadata the connection holds for a class.          *)
(***************************************************************************)
\* the primary key of the User entity
UserPrimaryKey == ("PK" :> <<Lit("USER#"), Ref("id")>>) @@ ("SK" :> <<Lit("USER#"), Ref("id")>>)
\* a primary key whose sort key is built from a second attribute
NamePrimaryKey == ("PK" :> <<Lit("USER#"), Ref("id")>>) @@ ("SK" :> <<Lit("NAME#"), Ref("name")>>)

EntityClass(t, pk, ix, uq, au, reg) ==
  [name |-> "user", table |-> t, registered |-> reg,
   schema |-> [primaryKey |-> pk, indexes |-> ix],
   uniqueAttributes |-> uq, autoUpdateAttributes |-> au]

\* the attributes the primary key's templates reference: the PrimaryKey type
PrimaryKeyAttrs(ec) ==
  UNION {TemplateRefs(ec.schema.primaryKey[n]) : n \in DOMAIN ec.schema.primaryKey}

\* the classes get and delete are called with
KeyClasses ==
  {EntityClass(t, pk, EmptyObject, <<>>, <<>>, TRUE) :
     t \in {table, simpleTable}, pk \in {UserPrimaryKey, NamePrimaryKey, EmptyObject}}

(***************************************************************************)
(* toDynamoGetItem and toDynamoDeleteItem.                                 *)
(***************************************************************************)
toDynamoGetItem(ec, primaryKey) ==
  LET metadata == ec
      tableName == getTableNameForEntity(ec)
      parsedPrimaryKey == getParsedPrimaryKey(metadata.table, metadata.schema.primaryKey, primaryKey)
  IN  IF parsedPrimaryKey.kind = "error" THEN parsedPrimaryKey
      ELSE IF isEmptyObject(parsedPrimaryKey.value)
        THEN Throw("PrimaryKeyUnresolvedError", "Primary could not be resolved")
      ELSE Return([TableName |-> tableName, Key |-> parsedPrimaryKey.value])

\* a delete that does not look at whether the parsed key is empty
ToDynamoDeleteItemUnchecked(ec, primaryKey) ==
  LET metadata == ec
      tableName == metadata.table.name
      parsedPrimaryKey == getParsedPrimaryKey(metadata.table, metadata.schema.primaryKey, primaryKey)
  IN  IF parsedPrimaryKey.kind = "error" THEN parsedPrimaryKey
      ELSE Return([TableName |-> tableName, Key |-> parsedPrimaryKey.value])

toDynamoDeleteItem(ec, primaryKey) ==
  LET metadata == ec
      tableName == metadata.table.name
      parsedPrimaryKey == getParsedPrimaryKey(metadata.table, metadata.schema.primaryKey, primaryKey)
  IN  IF parsedPrimaryKey.kind = "error" THEN parsedPrimaryKey
      ELSE IF isEmptyObject(parsedPrimaryKey.value)
        THEN Throw("PrimaryKeyUnresolvedError", "Primary could not be resolved")
      ELSE Return([TableName |-> tableName, Key |-> parsedPrimaryKey.value])

(***************************************************************************)
(* toDynamoPutItem.                                                        *)
(***************************************************************************)
\* the names of the attributes marked unique, in declaration order
UniqueNames == <<"email", "phone", "ssn", "iban">>

\* n unique attributes; `slot` is the value slot of the first one, which an
\* auto-generated attribute's metadata carries
UniqueAttributes(n, slot) ==
  [i \in 1..n |-> [name |-> UniqueNames[i], value |-> IF i = 1 THEN slot ELSE Undef]]

\* the classes put is called with
PutClasses ==
  {EntityClass(t, UserPrimaryKey, EmptyObject, UniqueAttributes(n, slot), <<>>, TRUE) :
     t \in {table, simpleTable}, n \in 0..MaxUnique, slot \in {Undef, Str("generated")}}

\* the attributes of an instance of the class
InstanceAttrs(ec) ==
  PrimaryKeyAttrs(ec) \cup {ec.uniqueAttributes[i].name : i \in DOMAIN ec.uniqueAttributes}

\* BaseTransformer.toDynamoEntity: the instance's attributes and its literal key
toDynamoEntity(ec, entity) ==
  LET parsedPrimaryKey == getParsedPrimaryKey(ec.table, ec.schema.primaryKey, entity)
  IN  IF parsedPrimaryKey.kind = "error" THEN parsedPrimaryKey
      ELSE Ok(Spread(entity, parsedPrimaryKey.value))

\* Condition().attributeNotExist(name)
attributeNotExist(name) == <<"attribute_not_exists", name>>

\* ExpressionBuilder.buildConditionExpression
buildConditionExpression(condition) ==
  [ConditionExpression |-> condition,
   ExpressionAttributeNames |-> <<condition[2]>>]

\* getUniqueAttributePrimaryKey: the key of the shadow item of a unique attribute
getUniqueAttributePrimaryKey(t, entityName, attrName, attributeValue) ==
  LET uniqueKeyValue == <<"DRM_GEN", entityName, attrName, attributeValue.s>>
  IN  IF usesCompositeKey(t)
        THEN (t.partitionKey :> uniqueKeyValue) @@ (t.sortKey[1] :> uniqueKeyValue)
        ELSE (t.partitionKey :> uniqueKeyValue)

\* the value of a unique attribute: the metadata's slot, else the instance's
uniqueAttributeValue(attr, entity) == Coalesce(attr.value, Get(entity, attr.name))

\* the shadow put of one unique attribute without the existence condition
UniqueAttributePutItemNoCondition(t, name, attr, entity, uniqueRecordConditionExpression) ==
  LET attributeValue == uniqueAttributeValue(attr, entity)
  IN  IF ~Truthy(attributeValue)
        THEN Throw("MissingUniqueAttributeValueError", attr.name)
      ELSE Ok([Item |-> getUniqueAttributePrimaryKey(t, name, attr.name, attributeValue),
               TableName |-> t.name])

\* the body of uniqueAttributes.map: the shadow put of one unique attribute
uniqueAttributePutItem(t, name, attr, entity, uniqueRecordConditionExpression) ==
  LET attributeValue == uniqueAttributeValue(attr, entity)
  IN  IF ~Truthy(attributeValue)
        THEN Throw("MissingUniqueAttributeValueError", attr.name)
      ELSE Ok(Spread([Item |-> getUniqueAttributePrimaryKey(t, name, attr.name, attributeValue),
                      TableName |-> t.name],
                     uniqueRecordConditionExpression))

\* uniqueAttributes.map(...): the shadow puts in order, or the first throw
RECURSIVE uniqueAttributePutItems(_, _, _, _, _)
uniqueAttributePutItems(t, name, uniqueAttributes, entity, cond) ==
  IF uniqueAttributes = <<>> THEN Ok(<<>>)
  ELSE LET first == uniqueAttributePutItem(t, name, Head(uniqueAttributes), entity, cond)
           rest == uniqueAttributePutItems(t, name, Tail(uniqueAttributes), entity, cond)
       IN  IF first.kind = "error" THEN first
           ELSE IF rest.kind = "error" THEN rest
           ELSE Ok(<<first.value>> \o rest.value)

\* options?.overwriteIfExists
overwriteIfExists(options) == options # None /\ options[1].overwriteIfExists

\* the entity put with the condition whatever the options say
DynamoPutItemAlwaysConditional(t, dynamoEntity, options, uniqueRecordConditionExpression) ==
  Spread([Item |-> dynamoEntity, TableName |-> t.name], uniqueRecordConditionExpression)

\* the put of the entity itself
dynamoPutItem(t, dynamoEntity, options, uniqueRecordConditionExpression) ==
  LET item == [Item |-> dynamoEntity, TableName |-> t.name]
  IN  IF ~overwriteIfExists(options)
        THEN Spread(item, uniqueRecordConditionExpression)
        ELSE item

\* what toDynamoPutItem returns: a list only when shadow puts exist
putReturn(entityPut, uniquePuts) ==
  IF Len(uniquePuts) # 0
    THEN ReturnList(<<entityPut>> \o uniquePuts)
    ELSE Return(entityPut)

toDynamoPutItem(ec, entity, options) ==
  LET t == ec.table
      name == ec.name
      uniqueAttributes == ec.uniqueAttributes
      dynamoEntity == toDynamoEntity(ec, entity)
      uniqueRecordConditionExpression ==
        buildConditionExpression(attributeNotExist(t.partitionKey))
      uniquePuts ==
        uniqueAttributePutItems(t, name, uniqueAttributes, entity, uniqueRecordConditionExpression)
  IN  IF dynamoEntity.kind = "error" THEN dynamoEntity
      ELSE IF uniquePuts.kind = "error" THEN uniquePuts
      ELSE putReturn(dynamoPutItem(t, dynamoEntity.value, options, uniqueRecordConditionExpression),
                     uniquePuts.value)

(***************************************************************************)
(* toDynamoUpdateItem.                                                     *)
(***************************************************************************)
\* the index templates of the User entity
UserIndexes ==
  "GSI1" :> (("GSI1PK" :> <<Lit("USER#STATUS#"), Ref("status")>>) @@
             ("GSI1SK" :> <<Lit("USER#"), Ref("name")>>))

\* a primary key that references the attribute updatedAt
VersionedPrimaryKey ==
  ("PK" :> <<Lit("USER#"), Ref("id")>>) @@ ("SK" :> <<Lit("USER#"), Ref("updatedAt")>>)

\* the attribute the classes mark as auto-updated, with its strategy
UpdatedAt == [name |-> "updatedAt", strategy |-> "EPOCH_DATE"]

\* a class the connection holds no metadata for
UnregisteredClass == EntityClass(table, UserPrimaryKey, EmptyObject, <<>>, <<>>, FALSE)

\* the classes update is called with
UpdateClasses ==
  {EntityClass(table, pk, UserIndexes, UniqueAttributes(n, Undef), au, TRUE) :
     pk \in {UserPrimaryKey, VersionedPrimaryKey}, n \in 0..MaxUnique, au \in {<<>>, <<UpdatedAt>>}}
  \cup {UnregisteredClass}

\* the attributes an update body may name
BodyAttrs(ec) ==
  {"status"} \cup {ec.uniqueAttributes[i].name : i \in DOMAIN ec.uniqueAttributes}
             \cup {ec.autoUpdateAttributes[i].name : i \in DOMAIN ec.autoUpdateAttributes}

\* the values attr.autoGenerateValue(strategy) may give
GeneratedValues == {Str("generated-1"), Str("generated-2")}

\* Connection.hasMetadata
hasMetadata(ec) == ec.registered

\* the properties of an object that hold a value
Present(obj) == {n \in DOMAIN obj : obj[n] # Undef}

\* BaseTransformer.getAffectedIndexesForAttributes: every index attribute whose
\* template references a changed attribute, parsed again from the changed attributes
getAffectedIndexesForAttributes(ec, attributes) ==
  LET indexes == ec.schema.indexes
      affected == {<<i, k>> \in UNION {{<<i, k>> : k \in DOMAIN indexes[i]} : i \in DOMAIN indexes} :
                     TemplateRefs(indexes[i][k]) \cap Present(attributes) # {}}
      parsed == [p \in affected |-> parseKey(indexes[p[1]][p[2]], attributes)]
  IN  IF \E p \in affected : parsed[p].kind = "error"
        THEN parsed[CHOOSE p \in affected : parsed[p].kind = "error"]
        ELSE Ok([k \in {p[2] : p \in affected} |->
                   Str(parsed[CHOOSE p \in affected : p[2] = k].value)])

\* ExpressionBuilder.buildUpdateExpression: one SET clause per attribute
buildUpdateExpression(attributes) ==
  [UpdateExpression |-> [n \in Present(attributes) |-> attributes[n]],
   ExpressionAttributeNames |-> Present(attributes),
   ExpressionAttributeValues |-> {attributes[n] : n \in Present(attributes)}]

\* the forEach over the unique attributes: does it throw?
uniqueAttributeInBody(uniqueAttributes, body) ==
  \E i \in DOMAIN uniqueAttributes : Truthy(Get(body, uniqueAttributes[i].name))

\* the reduce over the auto-update attributes: the generated values, or the throw
RECURSIVE formattedAutoUpdateAttributes(_, _, _)
formattedAutoUpdateAttributes(autoUpdateAttributes, primaryKey, generated) ==
  IF autoUpdateAttributes = <<>> THEN Ok(EmptyObject)
  ELSE LET attr == Head(autoUpdateAttributes)
           rest == formattedAutoUpdateAttributes(Tail(autoUpdateAttributes), primaryKey, generated)
       IN  IF Truthy(Get(primaryKey, attr.name))
             THEN Throw("AutoGeneratedAttributeKeyCollisionError", attr.name)
           ELSE IF rest.kind = "error" THEN rest
           ELSE Ok(Spread(attr.name :> generated[attr.name], rest.value))

\* options?.returnValues, ALL_NEW by default
returnValues(options) == IF options = None THEN "ALL_NEW" ELSE options[1].returnValues

\* `generated` holds what autoGenerateValue gives for each auto-update attribute.
\* The attribute names of the model hold no nestedKeySeparator.
toDynamoUpdateItem(ec, primaryKey, body, options, generated) ==
  IF ~hasMetadata(ec) THEN Throw("NoMetadataError", ec.name)
  ELSE
  LET metadata == ec
      tableName == metadata.table.name
      parsedPrimaryKey == getParsedPrimaryKey(metadata.table, metadata.schema.primaryKey, primaryKey)
      auto == formattedAutoUpdateAttributes(ec.autoUpdateAttributes, primaryKey, generated)
      attributesToUpdate == Spread(body, auto.value)
      affectedIndexes == getAffectedIndexesForAttributes(ec, attributesToUpdate)
      expression == buildUpdateExpression(Spread(attributesToUpdate, affectedIndexes.value))
  IN  IF parsedPrimaryKey.kind = "error" THEN parsedPrimaryKey
      ELSE IF isEmptyObject(parsedPrimaryKey.value)
        THEN Throw("PrimaryKeyUnresolvedError", "Primary could not be resolved")
      ELSE IF uniqueAttributeInBody(ec.uniqueAttributes, body)
        THEN Throw("ImmutableUniqueAttributeError", "")
      ELSE IF auto.kind = "error" THEN auto
      ELSE IF affectedIndexes.kind = "error" THEN affectedIndexes
      ELSE Return([TableName |-> tableName,
                   Key |-> parsedPrimaryKey.value,
                   UpdateExpression |-> expression.UpdateExpression,
                   ExpressionAttributeNames |-> expression.ExpressionAttributeNames,
                   ExpressionAttributeValues |-> expression.ExpressionAttributeValues,
                   ReturnValues |-> returnValues(options)])

(***************************************************************************)
(* toDynamoQueryItem.                                                      *)
(***************************************************************************)
\* index templates for every index of `table`; the local index declares a
\* partition template of its own
AllIndexes ==
  UserIndexes @@
  ("GSI2" :> ("GSI2PK" :> <<Lit("USER#ST#"), Ref("status")>>)) @@
  ("LSI1" :> (("PK" :> <<Lit("LSI#"), Ref("status")>>) @@
              ("LSI1SK" :> <<Lit("USER#"), Ref("name")>>)))

\* the classes query is called with
QueryClasses ==
  {EntityClass(t, UserPrimaryKey, ix, <<>>, <<>>, TRUE) :
     t \in {table, simpleTable}, ix \in {EmptyObject, UserIndexes, AllIndexes}}

\* the index names a caller asks for; GSI3 is on no table
QueryIndexes == {None} \cup {Some(n) : n \in {"GSI1", "GSI2", "LSI1", "GSI3"}}

\* the attributes the partition templates reference
PartitionKeyAttrs == {"id", "status"}

\* a clause of a key condition
Clause(name, operator, operands) == [attr |-> name, op |-> operator, values |-> operands]

\* KeyCondition().equals(name, value)
equals(name, value) == <<Clause(Some(name), "EQ", <<Str(value)>>)>>

\* KeyCondition.merge
merge(a, b) == a \o b

\* ExpressionBuilder.buildKeyConditionExpression
buildKeyConditionExpression(condition) ==
  [KeyConditionExpression |-> condition,
   ExpressionAttributeNames |-> [i \in DOMAIN condition |-> condition[i].attr],
   ExpressionAttributeValues |-> [i \in DOMAIN condition |-> condition[i].values]]

\* the index lookup that asks the table only
IndexToQueryTableOnly(ec, queryIndex) ==
  IF queryIndex = None THEN Ok(None)
  ELSE IF getIndexByKey(ec.table, queryIndex[1]) = None
    THEN Throw("IndexNotFoundError", "no such index exists on table")
  ELSE Ok(getIndexByKey(ec.table, queryIndex[1]))

\* the index to query: none, the table's descriptor, or the throw
indexToQuery(ec, queryIndex) ==
  IF queryIndex = None THEN Ok(None)
  ELSE LET matchingIndex == getIndexByKey(ec.table, queryIndex[1])
           matchingIndexOnEntity == queryIndex[1] \in DOMAIN ec.schema.indexes
       IN  IF matchingIndex = None
             THEN Throw("IndexNotFoundError", "no such index exists on table")
           ELSE IF ~matchingIndexOnEntity
             THEN Throw("IndexNotFoundError", "no such index exists on entity")
           ELSE Ok(matchingIndex)

\* parseKey(schema.indexes[queryIndex][partitionKey], attributes): reading a
\* property of an index the entity does not declare, or parsing a template it
\* does not declare, is a TypeError
indexTemplateValue(indexes, queryIndex, partitionKey, attributes) ==
  IF queryIndex \notin DOMAIN indexes \/ partitionKey \notin DOMAIN indexes[queryIndex]
    THEN Throw("TypeError", "Cannot read properties of undefined")
    ELSE parseKey(indexes[queryIndex][partitionKey], attributes)

\* the partition key resolved from the index's own template whatever its type
ParsedPartitionKeyOfIndex(ec, index, partitionKeyAttributes, queryIndex) ==
  LET value ==
        IF index = None
          THEN parseKey(ec.schema.primaryKey[ec.table.partitionKey], partitionKeyAttributes)
          ELSE indexTemplateValue(ec.schema.indexes, queryIndex[1], index[1].partitionKey,
                                  partitionKeyAttributes)
  IN  IF value.kind = "error" THEN value
      ELSE Ok([name |-> IF index = None THEN ec.table.partitionKey ELSE index[1].partitionKey,
               value |-> value.value])

\* the name and the value of the partition key to query
parsedPartitionKey(ec, index, partitionKeyAttributes, queryIndex) ==
  IF index = None \/ index[1].type = "LOCAL_SECONDARY_INDEX"
    THEN LET value == parseKey(ec.schema.primaryKey[ec.table.partitionKey], partitionKeyAttributes)
         IN  IF value.kind = "error" THEN value
             ELSE Ok([name |-> ec.table.partitionKey, value |-> value.value])
    ELSE LET value == indexTemplateValue(ec.schema.indexes, queryIndex[1], index[1].partitionKey,
                                         partitionKeyAttributes)
         IN  IF value.kind = "error" THEN value
             ELSE Ok([name |-> index[1].partitionKey, value |-> value.value])

\* the name of the sort key to query, undefined when the index declares none
parsedSortKey(t, index) ==
  IF index = None
    THEN IF ~usesCompositeKey(t)
           THEN Throw("UnsupportedSortKeyConditionError", "does not use composite key")
           ELSE Ok(t.sortKey)
    ELSE Ok(index[1].sortKey)

\* the sort key condition built from the caller's keyCondition
sortKeyCondition(name, keyCondition) ==
  IF "BETWEEN" \in DOMAIN keyCondition /\ Len(keyCondition["BETWEEN"]) # 0
    THEN <<Clause(name, "BETWEEN", keyCondition["BETWEEN"])>>
  ELSE IF "BEGINS_WITH" \in DOMAIN keyCondition /\ Truthy(keyCondition["BEGINS_WITH"])
    THEN <<Clause(name, "BEGINS_WITH", <<keyCondition["BEGINS_WITH"]>>)>>
  ELSE LET operator == CHOOSE k \in DOMAIN keyCondition : TRUE
       IN  <<Clause(name, operator, IF operator = "BETWEEN" THEN keyCondition[operator]
                                    ELSE <<keyCondition[operator]>>)>>

\* is the object the caller passed as queryOptions missing or empty?
noQueryOptions(queryOptions) ==
  \/ queryOptions = None
  \/ /\ queryOptions[1].keyCondition = None
     /\ queryOptions[1].limit = None
     /\ queryOptions[1].orderBy = None

\* the request built when query options are given
queryInputParams(t, queryIndex, sortKey, partitionKeyCondition, queryOptions) ==
  LET keyCondition == queryOptions.keyCondition
      limit == queryOptions.limit
      order == queryOptions.orderBy
      params == [TableName |-> t.name,
                 IndexName |-> queryIndex,
                 Limit |-> limit,
                 ScanIndexForward |-> (order = None \/ order = Some("ASC"))]
  IN  IF keyCondition # None /\ ~isEmptyObject(keyCondition[1])
        THEN Spread(params,
                    buildKeyConditionExpression(
                      merge(partitionKeyCondition, sortKeyCondition(sortKey, keyCondition[1]))))
        ELSE params

toDynamoQueryItem(ec, partitionKeyAttributes, queryIndex, queryOptions) ==
  LET t == ec.table
      index == indexToQuery(ec, queryIndex)
      partitionKey == parsedPartitionKey(ec, index.value, partitionKeyAttributes, queryIndex)
      partitionKeyCondition == equals(partitionKey.value.name, partitionKey.value.value)
      sortKey == parsedSortKey(t, index.value)
  IN  IF index.kind = "error" THEN index
      ELSE IF partitionKey.kind = "error" THEN partitionKey
      ELSE IF noQueryOptions(queryOptions)
        THEN Return(Spread([TableName |-> t.name, IndexName |-> queryIndex],
                           buildKeyConditionExpression(partitionKeyCondition)))
      ELSE IF sortKey.kind = "error" THEN sortKey
      ELSE Return(queryInputParams(t, queryIndex, sortKey.value, partitionKeyCondition,
                                   queryOptions[1]))

(***************************************************************************)
(* The calls.                                                              *)
(***************************************************************************)
\* the values the attributes of a query hold
QueryValues == {Undef, Str(""), Str("a"), Num("1")}

\* the sort key conditions a caller passes: one operator each, or none
KeyConditions ==
  {EmptyObject, "BETWEEN" :> <<Str("a"), Str("b")>>, "BETWEEN" :> <<>>,
   "BEGINS_WITH" :> Str("a"), "BEGINS_WITH" :> Str(""), "EQ" :> Str("a"), "GE" :> Num("0")}

\* the query options a caller passes: omitted, or an object of optional fields
QueryOptions ==
  {None} \cup
  {Some([keyCondition |-> kc, limit |-> l, orderBy |-> o]) :
     kc \in {None} \cup {Some(c) : c \in KeyConditions},
     l \in {None} \cup {Some(n) : n \in 1..MaxLimit},
     o \in {None, Some("ASC"), Some("DESC")}}

InitQuery ==
  /\ entityClass \in QueryClasses
  /\ \E partitionKeyAttributes \in [PartitionKeyAttrs -> QueryValues],
        queryIndex \in QueryIndexes,
        queryOptions \in QueryOptions :
       args = [api |-> "query", partitionKeyAttributes |-> partitionKeyAttributes,
               queryIndex |-> queryIndex, queryOptions |-> queryOptions]

\* the values an update body holds
BodyValues == {Undef, Str(""), Str("b"), Num("0")}

\* the options update is called with
UpdateOptions == {None, Some([returnValues |-> "NONE"])}

InitUpdate ==
  /\ entityClass \in UpdateClasses
  /\ \E primaryKey \in [PrimaryKeyAttrs(entityClass) -> Values],
        body \in [BodyAttrs(entityClass) -> BodyValues],
        options \in UpdateOptions :
       args = [api |-> "update", primaryKey |-> primaryKey, body |-> body, options |-> options]

\* the options put is called with: omitted, or overwriteIfExists set
PutOptions == {None} \cup {Some([overwriteIfExists |-> b]) : b \in BOOLEAN}

InitPut ==
  /\ entityClass \in PutClasses
  /\ \E entity \in [InstanceAttrs(entityClass) -> Values], options \in PutOptions :
       args = [api |-> "put", entity |-> entity, options |-> options]

InitKey ==
  /\ entityClass \in KeyClasses
  /\ \E primaryKey \in [PrimaryKeyAttrs(entityClass) -> Values] :
       args = [api |-> "key", primaryKey |-> primaryKey]

Init ==
  /\ (InitKey \/ InitPut \/ InitUpdate \/ InitQuery)
  /\ getItem = Pending
  /\ deleteItem = Pending
  /\ putItem = Pending
  /\ updateItem = Pending
  /\ queryItem = Pending

CallToDynamoGetItem ==
  /\ args.api = "key"
  /\ getItem = Pending
  /\ getItem' = toDynamoGetItem(entityClass, args.primaryKey)
  /\ UNCHANGED <<entityClass, args, deleteItem, putItem, updateItem, queryItem>>

CallToDynamoDeleteItem ==
  /\ args.api = "key"
  /\ deleteItem = Pending
  /\ deleteItem' = toDynamoDeleteItem(entityClass, args.primaryKey)
  /\ UNCHANGED <<entityClass, args, getItem, putItem, updateItem, queryItem>>

CallToDynamoPutItem ==
  /\ args.api = "put"
  /\ putItem = Pending
  /\ putItem' = toDynamoPutItem(entityClass, args.entity, args.options)
  /\ UNCHANGED <<entityClass, args, getItem, deleteItem, updateItem, queryItem>>

CallToDynamoUpdateItem ==
  /\ args.api = "update"
  /\ updateItem = Pending
  /\ \E generated \in [{entityClass.autoUpdateAttributes[i].name :
                          i \in DOMAIN entityClass.autoUpdateAttributes} -> GeneratedValues] :
       updateItem' = toDynamoUpdateItem(entityClass, args.primaryKey, args.body, args.options, generated)
  /\ UNCHANGED <<entityClass, args, getItem, deleteItem, putItem, queryItem>>

CallToDynamoQueryItem ==
  /\ args.api = "query"
  /\ queryItem = Pending
  /\ queryItem' = toDynamoQueryItem(entityClass, args.partitionKeyAttributes, args.queryIndex,
                                    args.queryOptions)
  /\ UNCHANGED <<entityClass, args, getItem, deleteItem, putItem, updateItem>>

Next ==
  \/ CallToDynamoGetItem
  \/ CallToDynamoDeleteItem
  \/ CallToDynamoPutItem
  \/ CallToDynamoUpdateItem
  \/ CallToDynamoQueryItem

Spec == Init /\ [][Next]_vars

(***************************************************************************)
(* Properties.                                                             *)
(***************************************************************************)
\* the first request of what put returned: the put of the entity itself
EntityPut == IF putItem.array THEN putItem.value[1] ELSE putItem.value

\* the condition "the table's partition key attribute does not exist"
PartitionKeyNotExists == <<"attribute_not_exists", entityClass.table.partitionKey>>

\* C1: the entity put carries the "partition key does not exist" condition when
\* the options are omitted or overwriteIfExists is false, and no condition
\* expression when overwriteIfExists is true.
PutConditionFollowsOverwrite ==
  putItem.kind = "return" =>
    IF args.options # None /\ args.options[1].overwriteIfExists
      THEN "ConditionExpression" \notin DOMAIN EntityPut
      ELSE /\ "ConditionExpression" \in DOMAIN EntityPut
           /\ EntityPut.ConditionExpression = PartitionKeyNotExists

\* a put with overwriteIfExists true that returned the entity put and shadow puts
PutOverwriteReturned ==
  /\ putItem.kind = "return"
  /\ putItem.array
  /\ args.options = Some([overwriteIfExists |-> TRUE])

\* the value put resolves for the i-th unique attribute of the class
UniqueValue(i) == Coalesce(entityClass.uniqueAttributes[i].value,
                           Get(args.entity, entityClass.uniqueAttributes[i].name))

\* an attribute has a value: it is neither missing nor the empty string
HasValue(v) == v # Undef /\ v # Str("")

\* C2: for an entity whose N unique attributes all have a value, put returns
\* exactly N+1 requests, the entity put first and all on the same table; for
\* N = 0 it returns a single request, not a list.
PutReturnsOnePerUniqueAttribute ==
  ( /\ args.api = "put"
    /\ putItem.kind # "pending"
    /\ getParsedPrimaryKey(entityClass.table, entityClass.schema.primaryKey, args.entity).kind = "ok"
    /\ \A i \in DOMAIN entityClass.uniqueAttributes : HasValue(UniqueValue(i)) )
  => /\ putItem.kind = "return"
     /\ putItem.array = (Len(entityClass.uniqueAttributes) # 0)
     /\ putItem.array =>
          /\ Len(putItem.value) = Len(entityClass.uniqueAttributes) + 1
          /\ \A j \in DOMAIN putItem.value : putItem.value[j].TableName = entityClass.table.name
          /\ \A n \in DOMAIN args.entity : n \in DOMAIN putItem.value[1].Item

\* C10: every shadow put carries the "must not already exist" condition on the
\* table's partition key whatever overwriteIfExists says, and a unique
\* attribute without a resolvable value makes put fail with
\* MissingUniqueAttributeValueError, returning nothing.
ShadowPutsAreConditional ==
  ( /\ args.api = "put"
    /\ putItem.kind # "pending" )
  => /\ (putItem.kind = "return" /\ putItem.array) =>
          \A j \in 2..Len(putItem.value) :
            /\ "ConditionExpression" \in DOMAIN putItem.value[j]
            /\ putItem.value[j].ConditionExpression = PartitionKeyNotExists
     /\ (\E i \in DOMAIN entityClass.uniqueAttributes : UniqueValue(i) = Undef) =>
          /\ putItem.kind = "error"
          /\ getParsedPrimaryKey(entityClass.table, entityClass.schema.primaryKey,
                                 args.entity).kind = "ok"
               => putItem.error = "MissingUniqueAttributeValueError"

\* a put with overwriteIfExists true whose entity put is unconditional and
\* which returned a shadow put for each of two unique attributes
ShadowPutsReturnedOnOverwrite ==
  /\ putItem.kind = "return"
  /\ putItem.array
  /\ Len(putItem.value) = 3
  /\ args.options # None
  /\ args.options[1].overwriteIfExists
  /\ "ConditionExpression" \notin DOMAIN putItem.value[1]

\* C7: get and delete called with the same class and key input return the same
\* TableName and the same Key, and both fail with PrimaryKeyUnresolvedError
\* when the parsed key is empty.
GetAndDeleteAgree ==
  ( /\ getItem.kind # "pending"
    /\ deleteItem.kind # "pending" )
  => /\ getItem.kind = deleteItem.kind
     /\ getItem.kind = "return" =>
          /\ getItem.value.TableName = deleteItem.value.TableName
          /\ getItem.value.Key = deleteItem.value.Key
          /\ ~isEmptyObject(getItem.value.Key)
     /\ getParsedPrimaryKey(entityClass.table, entityClass.schema.primaryKey,
                            args.primaryKey) = Ok(EmptyObject)
          => /\ getItem.kind = "error"
             /\ getItem.error = "PrimaryKeyUnresolvedError"
             /\ deleteItem.kind = "error"
             /\ deleteItem.error = "PrimaryKeyUnresolvedError"

\* get and delete both returned a request for a composite key
GetAndDeleteReturned ==
  /\ getItem.kind = "return"
  /\ deleteItem.kind = "return"
  /\ usesCompositeKey(entityClass.table)
  /\ DOMAIN getItem.value.Key = {"PK", "SK"}

\* the body of an update names an attribute marked unique
BodyNamesUniqueAttribute ==
  \E i \in DOMAIN entityClass.uniqueAttributes :
    Get(args.body, entityClass.uniqueAttributes[i].name) # Undef

\* the primary key input of an update resolves to a key
UpdateKeyResolves ==
  LET key == getParsedPrimaryKey(entityClass.table, entityClass.schema.primaryKey, args.primaryKey)
  IN  key.kind = "ok" /\ ~isEmptyObject(key.value)

\* C6: update fails with ImmutableUniqueAttributeError, returning no request,
\* whenever the body contains a key naming a unique attribute, for every value
\* under that key, the falsy ones included.
UpdateRejectsUniqueAttribute ==
  ( /\ args.api = "update"
    /\ updateItem.kind # "pending"
    /\ BodyNamesUniqueAttribute )
  => /\ updateItem.kind = "error"
     /\ (hasMetadata(entityClass) /\ UpdateKeyResolves)
          => updateItem.error = "ImmutableUniqueAttributeError"

\* an auto-update attribute of the class is an attribute of the primary key
AutoUpdateCollides ==
  \E i \in DOMAIN entityClass.autoUpdateAttributes :
    entityClass.autoUpdateAttributes[i].name \in PrimaryKeyAttrs(entityClass)

\* C8: update fails with AutoGeneratedAttributeKeyCollisionError, returning no
\* request, whenever an auto-update attribute's name is a primary key attribute
\* name; otherwise every auto-update attribute is in the update with a freshly
\* generated value, whatever the caller supplied under that name.
UpdateRejectsAutoUpdateKeyCollision ==
  ( /\ args.api = "update"
    /\ updateItem.kind # "pending" )
  => /\ AutoUpdateCollides =>
          /\ updateItem.kind = "error"
          /\ (UpdateKeyResolves /\ ~BodyNamesUniqueAttribute)
               => updateItem.error = "AutoGeneratedAttributeKeyCollisionError"
     /\ (~AutoUpdateCollides /\ updateItem.kind = "return") =>
          \A i \in DOMAIN entityClass.autoUpdateAttributes :
            /\ entityClass.autoUpdateAttributes[i].name \in DOMAIN updateItem.value.UpdateExpression
            /\ updateItem.value.UpdateExpression[entityClass.autoUpdateAttributes[i].name]
                 \in GeneratedValues

\* the query asks for an index that the table declares as local, or for none
QueriesTablePartition ==
  \/ args.queryIndex = None
  \/ entityClass.table.indexes[args.queryIndex[1]].type = "LOCAL_SECONDARY_INDEX"

\* the partition key attribute the claim C3 names for the query
ExpectedPartitionKeyName ==
  IF QueriesTablePartition
    THEN entityClass.table.partitionKey
    ELSE entityClass.table.indexes[args.queryIndex[1]].partitionKey

\* the template the claim C3 names for the query
ExpectedPartitionKeyTemplate ==
  IF QueriesTablePartition
    THEN entityClass.schema.primaryKey[entityClass.table.partitionKey]
    ELSE entityClass.schema.indexes[args.queryIndex[1]][ExpectedPartitionKeyName]

\* the partition key equality the claims C3 and C4 expect in a query
ExpectedPartitionKeyCondition ==
  Clause(Some(ExpectedPartitionKeyName), "EQ",
         <<Str(parseKey(ExpectedPartitionKeyTemplate, args.partitionKeyAttributes).value)>>)

\* C3: the key condition of a query names the table's partition key and uses
\* the primary key's partition template when no index or a LOCAL index is
\* asked for, even if the index declares a partition template; it names the
\* index's partition key and uses the index's template for a GLOBAL index.
QueryPartitionKeyFollowsIndexType ==
  ( /\ queryItem.kind = "return"
    /\ "KeyConditionExpression" \in DOMAIN queryItem.value )
  => /\ parseKey(ExpectedPartitionKeyTemplate, args.partitionKeyAttributes).kind = "ok"
     /\ queryItem.value.KeyConditionExpression[1] = ExpectedPartitionKeyCondition

\* a query of the local index of a class that declares a partition template
\* for it returned a request with a key condition
LocalIndexQueried ==
  /\ queryItem.kind = "return"
  /\ "KeyConditionExpression" \in DOMAIN queryItem.value
  /\ args.queryIndex = Some("LSI1")
  /\ "PK" \in DOMAIN entityClass.schema.indexes["LSI1"]
  /\ entityClass.schema.indexes["LSI1"]["PK"] # entityClass.schema.primaryKey["PK"]

\* C4: every query request returned contains a key condition expression that
\* equates the resolved partition key attribute to its resolved value: with no
\* options, with only limit and/or orderBy, and with a sort key condition;
\* limit and direction are the fields Limit and ScanIndexForward only.
QueryAlwaysHasKeyCondition ==
  queryItem.kind = "return" =>
    /\ "KeyConditionExpression" \in DOMAIN queryItem.value
    /\ parseKey(ExpectedPartitionKeyTemplate, args.partitionKeyAttributes).kind = "ok"
    /\ queryItem.value.KeyConditionExpression[1] = ExpectedPartitionKeyCondition
    /\ \A i \in DOMAIN queryItem.value.KeyConditionExpression :
         queryItem.value.KeyConditionExpression[i].attr \notin {Some("Limit"), Some("ScanIndexForward")}

\* the query passes a sort key condition
SortKeyConditionSupplied ==
  /\ args.queryOptions # None
  /\ args.queryOptions[1].keyCondition # None
  /\ ~isEmptyObject(args.queryOptions[1].keyCondition[1])

\* what the query targets has no sort key: the table, or the index asked for
TargetHasNoSortKey ==
  IF args.queryIndex = None
    THEN ~usesCompositeKey(entityClass.table)
    ELSE /\ args.queryIndex[1] \in DOMAIN entityClass.table.indexes
         /\ entityClass.table.indexes[args.queryIndex[1]].sortKey = None

\* the index asked for, if any, is on the table and on the entity, and the
\* partition key of the query resolves
QueryTargetResolves ==
  /\ args.queryIndex # None =>
       /\ args.queryIndex[1] \in DOMAIN entityClass.table.indexes
       /\ args.queryIndex[1] \in DOMAIN entityClass.schema.indexes
  /\ parseKey(ExpectedPartitionKeyTemplate, args.partitionKeyAttributes).kind = "ok"

\* C5: query fails with UnsupportedSortKeyConditionError, returning no request,
\* when a sort key condition is supplied and the target has no sort key, be
\* it the base table or an index whose descriptor has no sort key.
QueryRejectsSortConditionWithoutSortKey ==
  ( /\ args.api = "query"
    /\ queryItem.kind # "pending"
    /\ SortKeyConditionSupplied
    /\ TargetHasNoSortKey )
  => /\ queryItem.kind = "error"
     /\ QueryTargetResolves => queryItem.error = "UnsupportedSortKeyConditionError"

\* C9: a query given a queryIndex returns a request only if the index is on
\* the table and on the entity; otherwise it fails with IndexNotFoundError
\* whose message names the side that lacks it; a returned request's IndexName
\* is the index asked for.
QueryIndexMustExistOnBothSides ==
  ( /\ args.api = "query"
    /\ queryItem.kind # "pending"
    /\ args.queryIndex # None )
  => LET onTable == args.queryIndex[1] \in DOMAIN entityClass.table.indexes
         onEntity == args.queryIndex[1] \in DOMAIN entityClass.schema.indexes
     IN  /\ queryItem.kind = "return" =>
              /\ onTable
              /\ onEntity
              /\ queryItem.value.IndexName = args.queryIndex
         /\ ~onTable =>
              /\ queryItem.kind = "error"
              /\ queryItem.error = "IndexNotFoundError"
              /\ queryItem.message = "no such index exists on table"
         /\ (onTable /\ ~onEntity) =>
              /\ queryItem.kind = "error"
              /\ queryItem.error = "IndexNotFoundError"
              /\ queryItem.message = "no such index exists on entity"

\* a query of a global index, with options, returned a request naming the index
GlobalIndexQueried ==
  /\ queryItem.kind = "return"
  /\ args.queryIndex = Some("GSI1")
  /\ args.queryOptions # None
  /\ queryItem.value.IndexName = Some("GSI1")

====
